---- MODULE Spec2Model ----
(***************************************************************************)
(* Model of src/flask_app.py: the /process_audio request handler, its      *)
(* staging file, the two collaborator models, the fusion loop that maps    *)
(* diarization turns onto transcription segments and the role assignment.  *)
(***************************************************************************)
EXTENDS Integers, Sequences, FiniteSets, TLC

(***************************************************************************)
(* Bounds of the model.                                                    *)
(***************************************************************************)
\* time stamps are points of the grid 0..MaxTime
MaxTime == 3
\* a transcription has at most MaxSegs segments
MaxSegs == 3
\* a diarization has at most MaxTurns turns
MaxTurns == 3
\* requests in flight in the concurrent specification
NumRequests == 2

\* pipeline(temp_path, num_speakers=2): the diarization labels two speakers
num_speakers == 2

Requests == 1..NumRequests

\* labels of the diarization collaborator (pyannote: SPEAKER_00, SPEAKER_01, ...)
SpeakerName(n) == "SPEAKER_0" \o ToString(n)
Speakers == {SpeakerName(n) : n \in 0..(num_speakers - 1)}

(***************************************************************************)
(* Python builtins used by the handler.                                    *)
(***************************************************************************)
max(a, b) == IF a >= b THEN a ELSE b
min(a, b) == IF a <= b THEN a ELSE b

\* characters str.strip() removes
Whitespace == {" ", "\t", "\n"}

RECURSIVE lstrip(_)
lstrip(s) ==
    IF s # <<>> /\ Head(s) \in Whitespace THEN lstrip(Tail(s)) ELSE s

RECURSIVE rstrip(_)
rstrip(s) ==
    IF s # <<>> /\ s[Len(s)] \in Whitespace
    THEN rstrip(SubSeq(s, 1, Len(s) - 1))
    ELSE s

\* str.strip(): a string is a sequence of characters
strip(s) == rstrip(lstrip(s))

(***************************************************************************)
(* A dict is the sequence of its items in insertion order.                 *)
(***************************************************************************)
dict_keys(d) == {d[i].k : i \in DOMAIN d}

\* d.get(key, default)
dict_get(d, key, default) ==
    IF key \in dict_keys(d)
    THEN d[CHOOSE i \in DOMAIN d : d[i].k = key].v
    ELSE default

dict_set_keeps_first(d, key, value) ==
    IF key \in dict_keys(d) THEN d ELSE Append(d, [k |-> key, v |-> value])

\* d[key] = value: an existing key keeps its place, a new key goes last
dict_set(d, key, value) ==
    IF key \in dict_keys(d)
    THEN [i \in DOMAIN d |-> IF d[i].k = key THEN [k |-> key, v |-> value] ELSE d[i]]
    ELSE Append(d, [k |-> key, v |-> value])

max_key_first_inserted(d) == d[1].k

\* max(d, key=d.get) on a non-empty dict: the first key, in insertion order,
\* whose value no other key exceeds
max_key(d) ==
    LET best == CHOOSE i \in DOMAIN d :
                    /\ \A j \in DOMAIN d : d[j].v <= d[i].v
                    /\ \A j \in DOMAIN d : j < i => d[j].v < d[i].v
    IN  d[best].k

(***************************************************************************)
(* 3. Combine diarization and transcription.                               *)
(***************************************************************************)
overlap_duration_touching(segment, turn) ==
    max(0, min(segment.end, turn.end) - max(segment.start, turn.start) + 1)

overlap_duration(segment, turn) ==
    LET overlap_start == max(segment.start, turn.start)
        overlap_end   == min(segment.end, turn.end)
    IN  max(0, overlap_end - overlap_start)

\* the inner loop over diarization.itertracks(): speaker_times of one segment
RECURSIVE speaker_times(_, _, _)
speaker_times(segment, turns, acc) ==
    IF turns = <<>> THEN acc
    ELSE LET turn == Head(turns)
             d    == overlap_duration(segment, turn)
         IN  speaker_times(segment, Tail(turns),
                 IF d > 0
                 THEN dict_set(acc, turn.speaker, dict_get(acc, turn.speaker, 0) + d)
                 ELSE acc)

dominant_speaker(segment, turns) ==
    LET times == speaker_times(segment, turns, <<>>)
    IN  IF times # <<>> THEN max_key(times) ELSE "UNKNOWN"

fuse_drops_unmatched(segments, turns) ==
    SelectSeq([i \in DOMAIN segments |->
                  [start   |-> segments[i].start,
                   end     |-> segments[i].end,
                   text    |-> strip(segments[i].text),
                   speaker |-> dominant_speaker(segments[i], turns)]],
              LAMBDA u : u.speaker # "UNKNOWN")

\* the loop over transcription["segments"]: final_transcript before the roles
fuse(segments, turns) ==
    [i \in DOMAIN segments |->
        [start   |-> segments[i].start,
         end     |-> segments[i].end,
         text    |-> strip(segments[i].text),
         speaker |-> dominant_speaker(segments[i], turns)]]

(***************************************************************************)
(* 4. Identify the teacher and assign roles.                               *)
(***************************************************************************)
RECURSIVE speaker_talk_time_count(_, _)
speaker_talk_time_count(transcript, acc) ==
    IF transcript = <<>> THEN acc
    ELSE LET seg == Head(transcript)
         IN  speaker_talk_time_count(Tail(transcript),
                 dict_set(acc, seg.speaker, dict_get(acc, seg.speaker, 0) + 1))

RECURSIVE speaker_talk_time(_, _)
speaker_talk_time(transcript, acc) ==
    IF transcript = <<>> THEN acc
    ELSE LET seg      == Head(transcript)
             duration == seg.end - seg.start
         IN  speaker_talk_time(Tail(transcript),
                 dict_set(acc, seg.speaker, dict_get(acc, seg.speaker, 0) + duration))

find_teacher(transcript) ==
    LET talk == speaker_talk_time(transcript, <<>>)
    IN  IF talk # <<>> THEN max_key(talk) ELSE "UNKNOWN"

student_label(n) == "Student " \o ToString(n)

RECURSIVE assign_roles_count_all(_, _, _, _)
assign_roles_count_all(transcript, teacher, student_counter, speaker_map) ==
    IF transcript = <<>> THEN <<>>
    ELSE LET seg == Head(transcript)
             original_speaker == seg.speaker
             with(role) == [start |-> seg.start, end |-> seg.end, text |-> seg.text,
                            speaker |-> seg.speaker, speaker_role |-> role]
         IN  IF original_speaker = teacher
             THEN <<with("Teacher")>> \o
                  assign_roles_count_all(Tail(transcript), teacher,
                                         student_counter + 1, speaker_map)
             ELSE IF original_speaker # "UNKNOWN"
             THEN LET fresh == original_speaker \notin dict_keys(speaker_map)
                      map2  == IF fresh
                               THEN dict_set(speaker_map, original_speaker,
                                             student_label(student_counter))
                               ELSE speaker_map
                  IN  <<with(dict_get(map2, original_speaker, ""))>> \o
                      assign_roles_count_all(Tail(transcript), teacher,
                                             student_counter + 1, map2)
             ELSE <<with("Unknown")>> \o
                  assign_roles_count_all(Tail(transcript), teacher,
                                         student_counter + 1, speaker_map)

\* the second loop over final_transcript: seg['speaker_role']
RECURSIVE assign_roles(_, _, _, _)
assign_roles(transcript, teacher, student_counter, speaker_map) ==
    IF transcript = <<>> THEN <<>>
    ELSE LET seg == Head(transcript)
             original_speaker == seg.speaker
             with(role) == [start |-> seg.start, end |-> seg.end, text |-> seg.text,
                            speaker |-> seg.speaker, speaker_role |-> role]
         IN  IF original_speaker = teacher
             THEN <<with("Teacher")>> \o
                  assign_roles(Tail(transcript), teacher, student_counter, speaker_map)
             ELSE IF original_speaker # "UNKNOWN"
             THEN LET fresh == original_speaker \notin dict_keys(speaker_map)
                      map2  == IF fresh
                               THEN dict_set(speaker_map, original_speaker,
                                             student_label(student_counter))
                               ELSE speaker_map
                      next  == IF fresh THEN student_counter + 1 ELSE student_counter
                  IN  <<with(dict_get(map2, original_speaker, ""))>> \o
                      assign_roles(Tail(transcript), teacher, next, map2)
             ELSE <<with("Unknown")>> \o
                  assign_roles(Tail(transcript), teacher, student_counter, speaker_map)

(***************************************************************************)
(* What the collaborators can return.                                      *)
(***************************************************************************)
Times == 0..MaxTime

\* a diarization turn: start < end, one of the speakers
Turns == {[start |-> s, end |-> e, speaker |-> sp] :
             s \in Times, e \in Times, sp \in Speakers}

\* itertracks() yields the turns sorted by (start, end)
TurnsInTrackOrder(ts) ==
    /\ \A i \in DOMAIN ts : ts[i].start < ts[i].end
    /\ \A i \in DOMAIN ts : i > 1 =>
          \/ ts[i-1].start < ts[i].start
          \/ ts[i-1].start = ts[i].start /\ ts[i-1].end <= ts[i].end

\* any turns, overlapped speech included
OverlappedDiarizations ==
    UNION {{ts \in [1..n -> Turns] : TurnsInTrackOrder(ts)} : n \in 0..MaxTurns}

\* one speaker at a time: no two turns overlap
Diarizations ==
    {ts \in OverlappedDiarizations :
        \A i \in DOMAIN ts : i > 1 => ts[i-1].end <= ts[i].start}

\* texts of transcription segments, as whisper emits them (untrimmed)
RawTexts == << <<" ", "h", "i">>, <<"o", "k", " ", "\n">>, <<" ", "a", " ", "b", " ">> >>

Spans == {[start |-> s, end |-> e] : s \in Times, e \in Times}

\* segments are chronological and do not overlap; a segment may be empty
Chronological(ss) ==
    /\ \A i \in DOMAIN ss : ss[i].start <= ss[i].end
    /\ \A i \in DOMAIN ss : i > 1 => ss[i-1].end <= ss[i].start

SpanSeqs ==
    UNION {{ss \in [1..n -> Spans] : Chronological(ss)} : n \in 0..MaxSegs}

WithText(ss) ==
    [i \in DOMAIN ss |->
        [start |-> ss[i].start, end |-> ss[i].end,
         text  |-> RawTexts[(i % Len(RawTexts)) + 1]]]

Transcriptions == {WithText(ss) : ss \in SpanSeqs}

\* transcriptions of at most one segment
ShortTranscriptions == {segments \in Transcriptions : Len(segments) <= 1}

\* the collaborators' results in the concurrent specification
FewDiarizations ==
    {<<>>, <<[start |-> 0, end |-> 1, speaker |-> SpeakerName(0)]>>}
FewTranscriptions ==
    {WithText(<<[start |-> 0, end |-> 1]>>)}

(***************************************************************************)
(* The state of the server.                                                *)
(***************************************************************************)
VARIABLES
    pipeline,          \* the diarization model is loaded (not None)
    whisper_model,     \* the transcription model is loaded (not None)
    temp_file,         \* "temp_audio_file.wav": exists, and whose audio it holds
    pc,                \* where each request's handler stands
    upload,            \* request.files of each request
    diarization,       \* the turns pipeline() returned to the request
    transcription,     \* the segments transcribe() returned to the request
    final_transcript,  \* the request's final_transcript
    teacher_label,     \* the request's teacher_label
    response,          \* the request's response: status and body
    log                \* what the handler did for the request

vars == <<pipeline, whisper_model, temp_file, pc, upload, diarization,
          transcription, final_transcript, teacher_label, response, log>>

NoFile    == [exists |-> FALSE, audio |-> 0]
\* audio r is the upload of request r; audio 0 is an incomplete upload
Staged(a) == [exists |-> TRUE, audio |-> a]

NoUpload   == [has_file |-> FALSE, filename_empty |-> FALSE]
NoResponse == [status |-> 0, body |-> <<>>]
NoLog      == [saved |-> FALSE, diarized |-> {}, transcribed |-> {}, raised |-> FALSE]

Init ==
    /\ pipeline \in BOOLEAN
    /\ whisper_model \in BOOLEAN
    /\ temp_file = NoFile
    /\ pc = [r \in Requests |-> "idle"]
    /\ upload = [r \in Requests |-> NoUpload]
    /\ diarization = [r \in Requests |-> <<>>]
    /\ transcription = [r \in Requests |-> <<>>]
    /\ final_transcript = [r \in Requests |-> <<>>]
    /\ teacher_label = [r \in Requests |-> "UNKNOWN"]
    /\ response = [r \in Requests |-> NoResponse]
    /\ log = [r \in Requests |-> NoLog]

Error(code, message) == [status |-> code, body |-> <<message>>]

Receive_without_model_check(r) ==
    /\ pc[r] = "idle"
    /\ \E has_file \in BOOLEAN, filename_empty \in BOOLEAN :
          /\ has_file \/ ~filename_empty
          /\ upload' = [upload EXCEPT ![r] =
                           [has_file |-> has_file, filename_empty |-> filename_empty]]
          /\ IF ~has_file
             THEN /\ response' = [response EXCEPT ![r] =
                                     Error(400, "No file part in the request")]
                  /\ pc' = [pc EXCEPT ![r] = "returned"]
             ELSE IF filename_empty
             THEN /\ response' = [response EXCEPT ![r] = Error(400, "No selected file")]
                  /\ pc' = [pc EXCEPT ![r] = "returned"]
             ELSE /\ response' = response
                  /\ pc' = [pc EXCEPT ![r] = "save"]
    /\ UNCHANGED <<pipeline, whisper_model, temp_file, diarization, transcription,
                   final_transcript, teacher_label, log>>

\* lines 47-55: the checks before any processing
Receive(r) ==
    /\ pc[r] = "idle"
    /\ \E has_file \in BOOLEAN, filename_empty \in BOOLEAN :
          /\ has_file \/ ~filename_empty
          /\ upload' = [upload EXCEPT ![r] =
                           [has_file |-> has_file, filename_empty |-> filename_empty]]
          /\ IF ~has_file
             THEN /\ response' = [response EXCEPT ![r] =
                                     Error(400, "No file part in the request")]
                  /\ pc' = [pc EXCEPT ![r] = "returned"]
             ELSE IF filename_empty
             THEN /\ response' = [response EXCEPT ![r] = Error(400, "No selected file")]
                  /\ pc' = [pc EXCEPT ![r] = "returned"]
             ELSE IF ~pipeline \/ ~whisper_model
             THEN /\ response' = [response EXCEPT ![r] =
                                     Error(500, "A required model is not loaded.")]
                  /\ pc' = [pc EXCEPT ![r] = "returned"]
             ELSE /\ response' = response
                  /\ pc' = [pc EXCEPT ![r] = "save"]
    /\ UNCHANGED <<pipeline, whisper_model, temp_file, diarization, transcription,
                   final_transcript, teacher_label, log>>

\* line 58, audio_file.save(temp_path), outside the try: the upload is staged
SaveOk(r) ==
    /\ pc[r] = "save"
    /\ temp_file' = Staged(r)
    /\ log' = [log EXCEPT ![r].saved = TRUE]
    /\ pc' = [pc EXCEPT ![r] = "diarize"]
    /\ UNCHANGED <<pipeline, whisper_model, upload, diarization, transcription,
                   final_transcript, teacher_label, response>>

\* line 58 raises: before the file is opened, or after it was created and
\* only partly written; nothing catches it and no finally clause runs
SaveRaises(r) ==
    /\ pc[r] = "save"
    /\ \E created \in BOOLEAN :
          /\ temp_file' = IF created THEN Staged(0) ELSE temp_file
          /\ log' = [log EXCEPT ![r].saved = created, ![r].raised = TRUE]
    /\ response' = [response EXCEPT ![r] = Error(500, "Internal Server Error")]
    /\ pc' = [pc EXCEPT ![r] = "returned"]
    /\ UNCHANGED <<pipeline, whisper_model, upload, diarization, transcription,
                   final_transcript, teacher_label>>

\* the except clause, line 118
Caught(r) ==
    /\ response' = [response EXCEPT ![r] =
                       Error(500, "An error occurred during processing")]
    /\ log' = [log EXCEPT ![r].raised = TRUE]
    /\ pc' = [pc EXCEPT ![r] = "finally"]

\* line 62, pipeline(temp_path, num_speakers=2), returns the turns of the
\* audio it finds in the file
DiarizeOk(r, results) ==
    /\ pc[r] = "diarize"
    /\ pipeline
    /\ temp_file.exists
    /\ \E turns \in results : diarization' = [diarization EXCEPT ![r] = turns]
    /\ log' = [log EXCEPT ![r].diarized = {temp_file.audio}]
    /\ pc' = [pc EXCEPT ![r] = "transcribe"]
    /\ UNCHANGED <<pipeline, whisper_model, temp_file, upload, transcription,
                   final_transcript, teacher_label, response>>

\* line 62 raises: no model, no file, or the model fails on the audio
DiarizeRaises(r) ==
    /\ pc[r] = "diarize"
    /\ Caught(r)
    /\ UNCHANGED <<pipeline, whisper_model, temp_file, upload, diarization,
                   transcription, final_transcript, teacher_label>>

\* line 65, whisper_model.transcribe(temp_path)
TranscribeOk(r, results) ==
    /\ pc[r] = "transcribe"
    /\ whisper_model
    /\ temp_file.exists
    /\ \E segments \in results : transcription' = [transcription EXCEPT ![r] = segments]
    /\ log' = [log EXCEPT ![r].transcribed = {temp_file.audio}]
    /\ pc' = [pc EXCEPT ![r] = "combine"]
    /\ UNCHANGED <<pipeline, whisper_model, temp_file, upload, diarization,
                   final_transcript, teacher_label, response>>

\* line 65 raises
TranscribeRaises(r) ==
    /\ pc[r] = "transcribe"
    /\ Caught(r)
    /\ UNCHANGED <<pipeline, whisper_model, temp_file, upload, diarization,
                   transcription, final_transcript, teacher_label>>

\* lines 68-115: the fusion loop, the teacher, the roles, the response
Combine(r) ==
    /\ pc[r] = "combine"
    /\ LET fused   == fuse(transcription[r], diarization[r])
           teacher == find_teacher(fused)
           roles   == assign_roles(fused, teacher, 1, <<>>)
       IN  /\ final_transcript' = [final_transcript EXCEPT ![r] = roles]
           /\ teacher_label' = [teacher_label EXCEPT ![r] = teacher]
           /\ response' = [response EXCEPT ![r] = [status |-> 200, body |-> roles]]
    /\ pc' = [pc EXCEPT ![r] = "finally"]
    /\ UNCHANGED <<pipeline, whisper_model, temp_file, upload, diarization,
                   transcription, log>>

\* line 120: os.path.exists(temp_path)
FinallyExists(r) ==
    /\ pc[r] = "finally"
    /\ pc' = [pc EXCEPT ![r] = IF temp_file.exists THEN "remove" ELSE "returned"]
    /\ UNCHANGED <<pipeline, whisper_model, temp_file, upload, diarization,
                   transcription, final_transcript, teacher_label, response, log>>

\* line 121: os.remove(temp_path); it raises when the file is gone, and the
\* exception replaces the response
FinallyRemove(r) ==
    /\ pc[r] = "remove"
    /\ temp_file' = NoFile
    /\ IF temp_file.exists
       THEN UNCHANGED <<response, log>>
       ELSE /\ response' = [response EXCEPT ![r] = Error(500, "Internal Server Error")]
            /\ log' = [log EXCEPT ![r].raised = TRUE]
    /\ pc' = [pc EXCEPT ![r] = "returned"]
    /\ UNCHANGED <<pipeline, whisper_model, upload, diarization, transcription,
                   final_transcript, teacher_label>>

\* lines 119-121 with no other request in between
Finally(r) ==
    /\ pc[r] = "finally"
    /\ temp_file' = NoFile
    /\ pc' = [pc EXCEPT ![r] = "returned"]
    /\ UNCHANGED <<pipeline, whisper_model, upload, diarization, transcription,
                   final_transcript, teacher_label, response, log>>

\* the response is sent; the handler's locals are gone
Return(r) ==
    /\ pc[r] = "returned"
    /\ pc' = [pc EXCEPT ![r] = "idle"]
    /\ upload' = [upload EXCEPT ![r] = NoUpload]
    /\ diarization' = [diarization EXCEPT ![r] = <<>>]
    /\ transcription' = [transcription EXCEPT ![r] = <<>>]
    /\ final_transcript' = [final_transcript EXCEPT ![r] = <<>>]
    /\ teacher_label' = [teacher_label EXCEPT ![r] = "UNKNOWN"]
    /\ response' = [response EXCEPT ![r] = NoResponse]
    /\ log' = [log EXCEPT ![r] = NoLog]
    /\ UNCHANGED <<pipeline, whisper_model, temp_file>>

\* one worker: the server handles one request at a time
Next ==
    \E r \in {1} :
        \/ Receive(r)
        \/ SaveOk(r)
        \/ SaveRaises(r)
        \/ DiarizeOk(r, Diarizations)
        \/ DiarizeRaises(r)
        \/ TranscribeOk(r, Transcriptions)
        \/ TranscribeRaises(r)
        \/ Combine(r)
        \/ Finally(r)
        \/ Return(r)

Spec == Init /\ [][Next]_vars

\* one worker; one segment at most, against any turns
NextOverlapped ==
    \E r \in {1} :
        \/ Receive(r)
        \/ SaveOk(r)
        \/ SaveRaises(r)
        \/ DiarizeOk(r, OverlappedDiarizations)
        \/ DiarizeRaises(r)
        \/ TranscribeOk(r, ShortTranscriptions)
        \/ TranscribeRaises(r)
        \/ Combine(r)
        \/ Finally(r)
        \/ Return(r)

SpecOverlapped == Init /\ [][NextOverlapped]_vars

\* threads: the requests' steps interleave
NextThreaded ==
    \E r \in Requests :
        \/ Receive(r)
        \/ SaveOk(r)
        \/ SaveRaises(r)
        \/ DiarizeOk(r, FewDiarizations)
        \/ DiarizeRaises(r)
        \/ TranscribeOk(r, FewTranscriptions)
        \/ TranscribeRaises(r)
        \/ Combine(r)
        \/ FinallyExists(r)
        \/ FinallyRemove(r)
        \/ Return(r)

SpecThreaded == Init /\ [][NextThreaded]_vars

(***************************************************************************)
(* Properties.                                                             *)
(***************************************************************************)
\* the handler of r has built its 200 response
Processed(r) == pc[r] \in {"finally", "remove", "returned"} /\ response[r].status = 200

\* the unit intervals [t, t+1] of the grid inside a span
CellsOf(span) == {t \in Times : span.start <= t /\ t + 1 <= span.end}

\* the time a segment and a turn share
SharedTime(segment, turn) == Cardinality(CellsOf(segment) \cap CellsOf(turn))

\* the time segment shares with the first n turns that speaker sp holds
RECURSIVE SharedTotal(_, _, _, _)
SharedTotal(segment, turns, sp, n) ==
    IF n = 0 THEN 0
    ELSE SharedTotal(segment, turns, sp, n - 1)
         + (IF turns[n].speaker = sp THEN SharedTime(segment, turns[n]) ELSE 0)

\* the summed length of the first n utterances attributed to sp
RECURSIVE TalkTotal(_, _, _)
TalkTotal(transcript, sp, n) ==
    IF n = 0 THEN 0
    ELSE TalkTotal(transcript, sp, n - 1)
         + (IF transcript[n].speaker = sp
            THEN transcript[n].end - transcript[n].start ELSE 0)

\* t is raw without its leading and trailing whitespace
IsTrimOf(t, raw) ==
    \E a \in 0..Len(raw) :
        /\ a + Len(t) <= Len(raw)
        /\ t = SubSeq(raw, a + 1, a + Len(t))
        /\ \A i \in 1..a : raw[i] \in Whitespace
        /\ \A i \in (a + Len(t) + 1)..Len(raw) : raw[i] \in Whitespace
        /\ t # <<>> => t[1] \notin Whitespace /\ t[Len(t)] \notin Whitespace

C2_UnknownIffNoOverlap ==
    \A r \in Requests : Processed(r) =>
        \A i \in DOMAIN transcription[r] :
            final_transcript[r][i].speaker = "UNKNOWN"
            <=> \A j \in DOMAIN diarization[r] :
                    SharedTime(transcription[r][i], diarization[r][j]) = 0

\* a segment of positive length that ends where a turn starts
C2_Witness ==
    \E r \in Requests :
        /\ Processed(r)
        /\ \E i \in DOMAIN transcription[r], j \in DOMAIN diarization[r] :
              /\ transcription[r][i].start < transcription[r][i].end
              /\ transcription[r][i].end = diarization[r][j].start
              /\ final_transcript[r][i].speaker = "UNKNOWN"

\* C3: the overlap mapping of a segment holds a speaker exactly when a turn
\* of that speaker shares time with the segment, once, with the sum of the
\* shared times over the speaker's turns, which is positive
C3_OverlapMapping ==
    \A r \in Requests : Processed(r) =>
        \A i \in DOMAIN transcription[r] :
            LET segment == transcription[r][i]
                turns   == diarization[r]
                times   == speaker_times(segment, turns, <<>>)
            IN  /\ dict_keys(times) =
                       {turns[j].speaker : j \in {j \in DOMAIN turns :
                                                     SharedTime(segment, turns[j]) > 0}}
                /\ \A a, b \in DOMAIN times : times[a].k = times[b].k => a = b
                /\ \A a \in DOMAIN times :
                       /\ times[a].v = SharedTotal(segment, turns, times[a].k, Len(turns))
                       /\ times[a].v > 0

\* a speaker with two turns on the segment, and a turn that misses it
C3_Witness ==
    \E r \in Requests :
        /\ Processed(r)
        /\ \E i \in DOMAIN transcription[r] :
              \E a, b, c \in DOMAIN diarization[r] :
                  /\ a # b
                  /\ diarization[r][a].speaker = diarization[r][b].speaker
                  /\ SharedTime(transcription[r][i], diarization[r][a]) > 0
                  /\ SharedTime(transcription[r][i], diarization[r][b]) > 0
                  /\ SharedTime(transcription[r][i], diarization[r][c]) = 0

\* C4: where a turn shares time with the segment, no speaker shares more time
\* with it than the utterance's speaker; a turn with the segment's span, alone
\* on it, gives its speaker
C4_DominantSpeaker ==
    \A r \in Requests : Processed(r) =>
        \A i \in DOMAIN transcription[r] :
            LET segment == transcription[r][i]
                turns   == diarization[r]
                chosen  == final_transcript[r][i].speaker
            IN  /\ (\E j \in DOMAIN turns : SharedTime(segment, turns[j]) > 0) =>
                       \A sp \in Speakers :
                           SharedTotal(segment, turns, chosen, Len(turns))
                               >= SharedTotal(segment, turns, sp, Len(turns))
                /\ \A j \in DOMAIN turns :
                       ( /\ turns[j].start = segment.start
                         /\ turns[j].end = segment.end
                         /\ \A k \in DOMAIN turns :
                                k # j => SharedTime(segment, turns[k]) = 0 )
                       => chosen = turns[j].speaker

\* the speaker met second has more time on the segment than the one met first
C4_Witness ==
    \E r \in Requests :
        /\ Processed(r)
        /\ \E i \in DOMAIN transcription[r] :
              LET segment == transcription[r][i]
                  turns   == diarization[r]
              IN  /\ Len(turns) >= 2
                  /\ SharedTime(segment, turns[1]) > 0
                  /\ final_transcript[r][i].speaker # turns[1].speaker
                  /\ final_transcript[r][i].speaker # "UNKNOWN"

SpeakersIn(transcript) == {transcript[i].speaker : i \in DOMAIN transcript}

\* C5: in a non-empty transcript one speaker holds the role "Teacher" on all
\* of its utterances and on no other, and no speaker of the transcript has
\* more aggregate talk time
C5_TeacherHasMostTalkTime ==
    \A r \in Requests : Processed(r) /\ final_transcript[r] # <<>> =>
        LET ft == final_transcript[r]
        IN  \E sp \in SpeakersIn(ft) :
                /\ \A i \in DOMAIN ft : ft[i].speaker_role = "Teacher" <=> ft[i].speaker = sp
                /\ \A other \in SpeakersIn(ft) :
                       TalkTotal(ft, sp, Len(ft)) >= TalkTotal(ft, other, Len(ft))

\* the teacher has two utterances; another speaker comes first with an
\* utterance as long as either of them
C5_Witness ==
    \E r \in Requests :
        /\ Processed(r)
        /\ LET ft == final_transcript[r]
           IN  /\ Len(ft) = 3
               /\ ft[1].speaker_role # "Teacher"
               /\ ft[2].speaker_role = "Teacher"
               /\ ft[3].speaker_role = "Teacher"
               /\ ft[1].end - ft[1].start >= ft[2].end - ft[2].start
               /\ ft[1].end - ft[1].start >= ft[3].end - ft[3].start

\* C6: an utterance of speaker "UNKNOWN" has role "Unknown", never "Teacher"
C6_UnknownNeverTeacher ==
    \A r \in Requests : Processed(r) =>
        \A i \in DOMAIN final_transcript[r] :
            final_transcript[r][i].speaker = "UNKNOWN"
            => final_transcript[r][i].speaker_role = "Unknown"

\* the students: neither the teacher nor "UNKNOWN"
IsStudent(r, sp) == sp # teacher_label[r] /\ sp # "UNKNOWN"

FirstUtterance(transcript, sp) ==
    CHOOSE i \in DOMAIN transcript :
        /\ transcript[i].speaker = sp
        /\ \A j \in DOMAIN transcript : transcript[j].speaker = sp => i <= j

C8_TempFileDeleted ==
    \A r \in Requests : pc[r] = "returned" => ~temp_file.exists

Roles == {"Teacher", "Unknown"} \cup {student_label(n) : n \in 1..MaxSegs}

\* C9: a request ends with 400 (no file part, empty filename), 500 (a model
\* not loaded, a step raised) or 200 with the role-labelled utterances; with
\* 400, and with a model not loaded, no file was written and no model called
C9_Outcomes ==
    \A r \in Requests : pc[r] = "returned" =>
        LET status   == response[r].status
            missing  == ~upload[r].has_file \/ upload[r].filename_empty
            unloaded == ~pipeline \/ ~whisper_model
        IN  /\ status \in {200, 400, 500}
            /\ status = 400 <=> missing
            /\ status = 500 <=> ~missing /\ (unloaded \/ log[r].raised)
            /\ status = 200 =>
                   /\ response[r].body = final_transcript[r]
                   /\ Len(response[r].body) = Len(transcription[r])
                   /\ \A i \in DOMAIN response[r].body :
                          response[r].body[i].speaker_role \in Roles
            /\ missing \/ unloaded =>
                   /\ ~log[r].saved
                   /\ log[r].diarized = {}
                   /\ log[r].transcribed = {}

C9_Witness ==
    \E r \in Requests :
        /\ pc[r] = "returned"
        /\ upload[r].has_file /\ ~upload[r].filename_empty
        /\ ~pipeline
        /\ response[r].status = 500

\* C10: each request's collaborators read the audio the request uploaded, and
\* the staged file is the request's own while its collaborators need it
C10_RequestsIsolated ==
    \A r \in Requests :
        /\ log[r].diarized \subseteq {r}
        /\ log[r].transcribed \subseteq {r}
        /\ pc[r] \in {"diarize", "transcribe"} => temp_file = Staged(r)

====
